---------------------------- MODULE Spec2Model ----------------------------
(***************************************************************************)
(* claude-priors: the Node CLI (bin/cli.js: init, status, main dispatch)   *)
(* and the shell installer (install.sh, carried in README.md from line     *)
(* 155 on), as state machines over one project filesystem.                 *)
(*                                                                         *)
(* File contents are sequences of tokens.  A token stands for the source   *)
(* text it is named after: "\n" a newline, " " a blank, "##" and "Priors"  *)
(* the two halves of the marker heading, ".", "claude/priors/" the two     *)
(* halves of the ignore rule, "---" three hyphens, "topic:" ... the field  *)
(* names, "3", "5" digits, every other token ordinary text.  The string    *)
(* operations of the source (trim, includes, regex match, grep) are        *)
(* computed on these sequences token by token.                             *)
(***************************************************************************)
EXTENDS Integers, Sequences, FiniteSets, TLC

VARIABLES
    fs,        \* the filesystem: project tree plus the user-home skill dir
    pkg,       \* the installed package: the bundled assets' candidate files
    inv,       \* the command line being run (and re-run): program and flags
    pc,        \* position of the running process; "idle" / "done" between runs
    out,       \* lines printed by the current run
    writes,    \* paths the current run has created or written
    exitCode,  \* exit status of the last finished run (-1: none yet)
    startFs,   \* history: fs when the current run started
    fs0,       \* history: fs before the first run
    trail      \* history: how each run so far ended

vars == <<fs, pkg, inv, pc, out, writes, exitCode, startFs, fs0, trail>>

(***************************************************************************)
(* Bounds of the model.                                                    *)
(***************************************************************************)
MaxRuns == 2        \* runs of the same command line in a row
MaxFiles == 2       \* knowledge files the agent leaves in .claude/priors/

(***************************************************************************)
(* Text helpers.                                                           *)
(***************************************************************************)
NL == "\n"
SP == " "

IsWs(c) == c \in {SP, NL}

\* String.prototype.trimEnd: drop trailing whitespace
trimEnd(s) ==
    LET keep == {k \in 0..Len(s) : k = 0 \/ ~IsWs(s[k])}
        n == CHOOSE k \in keep : \A j \in keep : j <= k
    IN SubSeq(s, 1, n)

\* String.prototype.trim: drop leading and trailing whitespace
trim(s) ==
    LET t == trimEnd(s)
        from == {k \in 1..(Len(t) + 1) : k = Len(t) + 1 \/ ~IsWs(t[k])}
        m == CHOOSE k \in from : \A j \in from : k <= j
    IN SubSeq(t, m, Len(t))

\* a marker test that looks at the start of the text only (startsWith)
includesAtStart(s, pat) ==
    Len(s) >= Len(pat) /\ SubSeq(s, 1, Len(pat)) = pat

\* String.prototype.includes
includes(s, pat) ==
    \E i \in 1..(Len(s) - Len(pat) + 1) : SubSeq(s, i, i + Len(pat) - 1) = pat

\* the lines of a text, split at newlines; a final newline ends the last line
RECURSIVE Lines(_)
Lines(s) ==
    IF s = <<>> THEN <<>>
    ELSE LET nls == {k \in 1..Len(s) : s[k] = NL}
         IN IF nls = {} THEN <<s>>
            ELSE LET k == CHOOSE x \in nls : \A y \in nls : x <= y
                 IN <<SubSeq(s, 1, k - 1)>> \o Lines(SubSeq(s, k + 1, Len(s)))

\* grep -q PATTERN FILE: some line holds a match of the basic regular
\* expression; in a pattern "." matches any one character
grepQ(pat, s) ==
    \E l \in 1..Len(Lines(s)) :
        LET line == Lines(s)[l]
        IN \E i \in 1..(Len(line) - Len(pat) + 1) :
               \A j \in 1..Len(pat) : pat[j] = "." \/ line[i + j - 1] = pat[j]

(***************************************************************************)
(* Program constants and bundled text.                                     *)
(***************************************************************************)
PRIORS_MARKER == <<"##", "Priors">>

\* install.sh's BOOTSTRAP_TEXT: a leading newline, the heading, a blank
\* line, the body; no final newline
BOOTSTRAP_TEXT == <<NL, "##", "Priors", NL, NL, "body">>

\* the rule install.sh greps for and writes: ".claude/priors/"
IGNORE_RULE == <<".", "claude/priors/">>
IGNORE_COMMENT == <<"#comment">>

\* the bundled reference document (skill/SKILL.md; inlined in install.sh)
SKILL_TEXT == <<"skill", "v2">>
\* an older copy of it, as an earlier version left it
SKILL_OLD == <<"skill", "v1">>
\* the bundled bootstrap snippet (bootstrap/CLAUDE.md.snippet): the text
\* install.sh inlines, as a file ending in a newline
SNIPPET_TEXT == <<"##", "Priors", NL, NL, "body", NL>>
\* the same snippet in a differently packaged copy (surrounding blank lines)
SNIPPET_ALT == <<NL, "##", "Priors", NL, NL, "body", NL, NL>>

(***************************************************************************)
(* Files and the filesystem.                                               *)
(***************************************************************************)
NoFile == [ex |-> FALSE, data |-> <<>>]
File(d) == [ex |-> TRUE, data |-> d]

GITKEEP == <<".gitkeep">>

\* fs.existsSync(path.join(priorsDir, name)) for a directory listing
HasEntry(list, name) == \E i \in 1..Len(list) : list[i].name = name

\* fs.writeFileSync into a directory: replace the entry or add it
WriteEntry(list, name, data) ==
    IF HasEntry(list, name)
    THEN [i \in 1..Len(list) |->
             IF list[i].name = name THEN [name |-> name, data |-> data] ELSE list[i]]
    ELSE Append(list, [name |-> name, data |-> data])


(***************************************************************************)
(* Filesystem accessors.                                                   *)
(***************************************************************************)
\* fs.mkdirSync(priorsDir, {recursive: true}) / mkdir -p .claude/priors
MkdirPriors(f) == [f EXCEPT !.priorsDir = TRUE]

\* fs.writeFileSync(path.join(priorsDir, '.gitkeep'), '')
WriteGitkeep(f) == [f EXCEPT !.priorsList = WriteEntry(@, GITKEEP, <<>>)]

\* touch .claude/priors/.gitkeep: create it empty unless it is there
TouchGitkeep(f) ==
    IF HasEntry(f.priorsList, GITKEEP) THEN f ELSE WriteGitkeep(f)

\* skillDir: under the user home with --global, else under the project
SkillDirExists(f, global) == IF global THEN f.skillDirG ELSE f.skillDirL
SkillDest(f, global) == IF global THEN f.skillG ELSE f.skillL
SkillPath(global) == IF global THEN "~/SKILL.md" ELSE "SKILL.md"
SkillDirPath(global) == IF global THEN "~/skilldir" ELSE "skilldir"

MkdirSkill(f, global) ==
    IF global THEN [f EXCEPT !.skillDirG = TRUE] ELSE [f EXCEPT !.skillDirL = TRUE]

WriteSkill(f, global, data) ==
    IF global THEN [f EXCEPT !.skillG = File(data)]
    ELSE [f EXCEPT !.skillL = File(data)]

ReadPath(f, name) ==
    CASE name = "CLAUDE.md" -> f.claude
      [] name = "AGENTS.md" -> f.agents
      [] name = ".gitignore" -> f.gitignore

WritePath(f, name, data) ==
    CASE name = "CLAUDE.md" -> [f EXCEPT !.claude = File(data)]
      [] name = "AGENTS.md" -> [f EXCEPT !.agents = File(data)]
      [] name = ".gitignore" -> [f EXCEPT !.gitignore = File(data)]

(***************************************************************************)
(* Asset Locator (cli.js).                                                 *)
(***************************************************************************)
resolveAsset(primary, fallback) ==
    IF primary.ex THEN primary
    ELSE IF fallback.ex THEN fallback
    ELSE NoFile

\* readAsset exits the process with status 1 when nothing resolves
AssetFound(primary, fallback) == resolveAsset(primary, fallback).ex
readAsset(primary, fallback) == resolveAsset(primary, fallback).data

(***************************************************************************)
(* Instructions file: selection and the text written (both programs).      *)
(***************************************************************************)
\* the candidates tried in the other order
InstructionFileAgentsFirst(f) ==
    IF f.agents.ex THEN "AGENTS.md"
    ELSE IF f.claude.ex THEN "CLAUDE.md"
    ELSE "CLAUDE.md"

\* CLAUDE.md if it exists, else AGENTS.md if it exists, else CLAUDE.md
InstructionFile(f) ==
    IF f.claude.ex THEN "CLAUDE.md"
    ELSE IF f.agents.ex THEN "AGENTS.md"
    ELSE "CLAUDE.md"

\* step 3 without its marker test: the fragment is written on every run
NodeInstrWritesAlways(existing) == TRUE

\* cli.js: whether step 3 writes the instructions file at all
NodeInstrWrites(existing) ==
    ~existing.ex \/ ~includes(existing.data, PRIORS_MARKER)

\* cli.js: the content step 3 writes
NodeInstrText(existing, bootstrapContent) ==
    IF existing.ex
    THEN trimEnd(existing.data) \o <<NL, NL>> \o trim(bootstrapContent) \o <<NL>>
    ELSE trim(bootstrapContent) \o <<NL>>

\* install.sh: whether step 3 writes the instructions file at all
ShellInstrWrites(existing) ==
    ~existing.ex \/ ~grepQ(PRIORS_MARKER, existing.data)

\* install.sh: printf '\n%s\n' "$BOOTSTRAP_TEXT" >> file, or
\* printf '%s\n' "$BOOTSTRAP_TEXT" > file
ShellInstrText(existing) ==
    IF existing.ex
    THEN existing.data \o <<NL>> \o BOOTSTRAP_TEXT \o <<NL>>
    ELSE BOOTSTRAP_TEXT \o <<NL>>

\* install.sh step 4: whether .gitignore is written, and with what
ShellIgnoreWrites(existing) ==
    ~existing.ex \/ ~grepQ(IGNORE_RULE, existing.data)

ShellIgnoreText(existing) ==
    IF existing.ex
    THEN existing.data \o <<NL>> \o IGNORE_COMMENT \o <<NL>> \o IGNORE_RULE \o <<NL>>
    ELSE IGNORE_COMMENT \o <<NL>> \o IGNORE_RULE \o <<NL>>

(***************************************************************************)
(* The steps of init as functions of the filesystem.                       *)
(***************************************************************************)
\* cli.js step 2, the file: write when absent or different from the bundle
NodeSkillFileFs(f, global, skillContent) ==
    IF ~SkillDest(f, global).ex \/ SkillDest(f, global).data # skillContent
    THEN WriteSkill(f, global, skillContent)
    ELSE f

NodeSkillMessage(f, global, skillContent) ==
    IF ~SkillDest(f, global).ex THEN "Created SKILL.md"
    ELSE IF SkillDest(f, global).data = skillContent THEN "SKILL.md already up to date"
    ELSE "Updated SKILL.md"

\* install.sh step 2, the file: write only when absent
ShellSkillFileFs(f) ==
    IF ~f.skillL.ex THEN WriteSkill(f, FALSE, SKILL_TEXT) ELSE f

ShellSkillMessage(f) ==
    IF ~f.skillL.ex THEN "Created SKILL.md" ELSE "SKILL.md already exists"

\* cli.js step 3
NodeInstrFs(f, bootstrapContent) ==
    LET name == InstructionFile(f)
        existing == ReadPath(f, name)
    IN IF NodeInstrWrites(existing)
       THEN WritePath(f, name, NodeInstrText(existing, bootstrapContent))
       ELSE f

\* install.sh step 3
ShellInstrFs(f) ==
    LET name == InstructionFile(f)
        existing == ReadPath(f, name)
    IN IF ShellInstrWrites(existing)
       THEN WritePath(f, name, ShellInstrText(existing))
       ELSE f

InstrMessage(existing, hasMarker) ==
    IF ~existing.ex THEN "Created with priors bootstrap"
    ELSE IF hasMarker THEN "already has priors bootstrap"
    ELSE "Appended priors bootstrap"

\* install.sh step 4
ShellIgnoreFs(f, shared) ==
    IF ~shared /\ ShellIgnoreWrites(f.gitignore)
    THEN WritePath(f, ".gitignore", ShellIgnoreText(f.gitignore))
    ELSE f

\* a whole uninterrupted run of cli.js init, as one function
NodeInitFs(f, pk, global) ==
    LET f1 == IF ~f.priorsDir THEN WriteGitkeep(MkdirPriors(f)) ELSE f
        f2 == NodeSkillFileFs(MkdirSkill(f1, global), global,
                              readAsset(pk.skillP, pk.skillF))
    IN IF ~AssetFound(pk.skillP, pk.skillF) THEN f1
       ELSE IF ~AssetFound(pk.bootP, pk.bootF) THEN f2
       ELSE NodeInstrFs(f2, readAsset(pk.bootP, pk.bootF))

\* a whole uninterrupted run of install.sh, as one function
ShellInitFs(f, shared) ==
    LET f1 == IF ~f.priorsDir THEN TouchGitkeep(MkdirPriors(f)) ELSE f
        f2 == ShellSkillFileFs(MkdirSkill(f1, FALSE))
    IN ShellIgnoreFs(ShellInstrFs(f2), shared)

InitFs(f, pk, i) ==
    IF i.prog = "node" THEN NodeInitFs(f, pk, i.global) ELSE ShellInitFs(f, i.shared)

(***************************************************************************)
(* Running a program.  A run is the command line inv, started by the       *)
(* dispatcher and carried through its filesystem operations one at a       *)
(* time; between any two of them the process may be killed.                *)
(***************************************************************************)
Finish(code) ==
    /\ pc' = "done"
    /\ exitCode' = code
    /\ trail' = Append(trail, [how |-> "done", exit |-> code])

Begin(first) ==
    /\ pc \in {"idle", "done"}
    /\ Len(trail) < MaxRuns
    /\ pc' = first
    /\ out' = <<>>
    /\ writes' = {}
    /\ exitCode' = -1
    /\ startFs' = fs
    /\ UNCHANGED <<fs, pkg, inv, fs0, trail>>

\* cli.js main: `claude-priors init [--global]` enters init
NodeMainInit ==
    /\ inv.prog = "node" /\ inv.cmd = "init"
    /\ Begin("n_priors")

\* cli.js init, step 1: the directory
NodePriorsDir ==
    /\ pc = "n_priors"
    /\ IF ~fs.priorsDir
       THEN /\ fs' = MkdirPriors(fs)
            /\ writes' = writes \cup {".claude/priors/"}
            /\ pc' = "n_gitkeep"
            /\ out' = out
       ELSE /\ out' = Append(out, ".claude/priors/ already exists")
            /\ pc' = "n_skill"
            /\ UNCHANGED <<fs, writes>>
    /\ UNCHANGED <<pkg, inv, exitCode, startFs, fs0, trail>>

\* cli.js init, step 1: the marker file, written only after the mkdir
NodeGitkeep ==
    /\ pc = "n_gitkeep"
    /\ fs' = WriteGitkeep(fs)
    /\ writes' = writes \cup {".gitkeep"}
    /\ out' = Append(out, "Created .claude/priors/")
    /\ pc' = "n_skill"
    /\ UNCHANGED <<pkg, inv, exitCode, startFs, fs0, trail>>

\* cli.js init, step 2: read the asset (exit 1 without it), make skillDir
NodeSkillDir ==
    /\ pc = "n_skill"
    /\ IF ~AssetFound(pkg.skillP, pkg.skillF)
       THEN /\ out' = Append(out, "Error: Could not find asset")
            /\ Finish(1)
            /\ UNCHANGED <<fs, writes>>
       ELSE /\ IF ~SkillDirExists(fs, inv.global)
               THEN /\ fs' = MkdirSkill(fs, inv.global)
                    /\ writes' = writes \cup {SkillDirPath(inv.global)}
               ELSE UNCHANGED <<fs, writes>>
            /\ pc' = "n_skillFile"
            /\ UNCHANGED <<out, exitCode, trail>>
    /\ UNCHANGED <<pkg, inv, startFs, fs0>>

\* cli.js init, step 2: the reference document
NodeSkillFile ==
    /\ pc = "n_skillFile"
    /\ LET skillContent == readAsset(pkg.skillP, pkg.skillF)
       IN /\ fs' = NodeSkillFileFs(fs, inv.global, skillContent)
          /\ writes' = IF fs' # fs THEN writes \cup {SkillPath(inv.global)} ELSE writes
          /\ out' = Append(out, NodeSkillMessage(fs, inv.global, skillContent))
    /\ pc' = "n_instr"
    /\ UNCHANGED <<pkg, inv, exitCode, startFs, fs0, trail>>

\* cli.js init, step 3: the instructions file, then "Done!"
NodeInstructions ==
    /\ pc = "n_instr"
    /\ IF ~AssetFound(pkg.bootP, pkg.bootF)
       THEN /\ out' = Append(out, "Error: Could not find asset")
            /\ Finish(1)
            /\ UNCHANGED <<fs, writes>>
       ELSE LET bootstrapContent == readAsset(pkg.bootP, pkg.bootF)
                name == InstructionFile(fs)
                existing == ReadPath(fs, name)
            IN /\ fs' = NodeInstrFs(fs, bootstrapContent)
               /\ writes' = IF NodeInstrWrites(existing)
                            THEN writes \cup {name} ELSE writes
               /\ out' = out \o <<InstrMessage(existing,
                                     includes(existing.data, PRIORS_MARKER)), "Done!">>
               /\ Finish(0)
    /\ UNCHANGED <<pkg, inv, startFs, fs0>>

\* ./install.sh [--shared]
ShellMain ==
    /\ inv.prog = "shell"
    /\ Begin("s_priors")

\* install.sh step 1: mkdir -p
ShellPriorsDir ==
    /\ pc = "s_priors"
    /\ IF ~fs.priorsDir
       THEN /\ fs' = MkdirPriors(fs)
            /\ writes' = writes \cup {".claude/priors/"}
            /\ pc' = "s_touch"
            /\ out' = out
       ELSE /\ out' = Append(out, ".claude/priors/ already exists")
            /\ pc' = "s_skillDir"
            /\ UNCHANGED <<fs, writes>>
    /\ UNCHANGED <<pkg, inv, exitCode, startFs, fs0, trail>>

\* install.sh step 1: touch .gitkeep
ShellTouch ==
    /\ pc = "s_touch"
    /\ fs' = TouchGitkeep(fs)
    /\ writes' = writes \cup {".gitkeep"}
    /\ out' = Append(out, "Created .claude/priors/")
    /\ pc' = "s_skillDir"
    /\ UNCHANGED <<pkg, inv, exitCode, startFs, fs0, trail>>

\* install.sh step 2: mkdir -p "$SKILL_DIR"
ShellSkillDir ==
    /\ pc = "s_skillDir"
    /\ fs' = MkdirSkill(fs, FALSE)
    /\ writes' = IF fs' # fs THEN writes \cup {SkillDirPath(FALSE)} ELSE writes
    /\ pc' = "s_skillFile"
    /\ UNCHANGED <<pkg, inv, out, exitCode, startFs, fs0, trail>>

\* install.sh step 2: the reference document, only when absent
ShellSkillFile ==
    /\ pc = "s_skillFile"
    /\ fs' = ShellSkillFileFs(fs)
    /\ writes' = IF ~fs.skillL.ex THEN writes \cup {SkillPath(FALSE)} ELSE writes
    /\ out' = Append(out, ShellSkillMessage(fs))
    /\ pc' = "s_instr"
    /\ UNCHANGED <<pkg, inv, exitCode, startFs, fs0, trail>>

\* install.sh step 3: the instructions file
ShellInstructions ==
    /\ pc = "s_instr"
    /\ LET name == InstructionFile(fs)
           existing == ReadPath(fs, name)
       IN /\ fs' = ShellInstrFs(fs)
          /\ writes' = IF ShellInstrWrites(existing) THEN writes \cup {name} ELSE writes
          /\ out' = Append(out, InstrMessage(existing,
                                             grepQ(PRIORS_MARKER, existing.data)))
    /\ pc' = "s_gitignore"
    /\ UNCHANGED <<pkg, inv, exitCode, startFs, fs0, trail>>

\* install.sh step 4: .gitignore, then "Done!"
ShellGitignore ==
    /\ pc = "s_gitignore"
    /\ fs' = ShellIgnoreFs(fs, inv.shared)
    /\ writes' = IF ~inv.shared /\ ShellIgnoreWrites(fs.gitignore)
                 THEN writes \cup {".gitignore"} ELSE writes
    /\ out' = out \o <<IF inv.shared THEN "--shared: priors will be git-tracked"
                       ELSE IF ~fs.gitignore.ex THEN "Created .gitignore with priors exclusion"
                       ELSE IF ShellIgnoreWrites(fs.gitignore)
                            THEN "Added .claude/priors/ to .gitignore"
                       ELSE ".gitignore already excludes priors", "Done!">>
    /\ Finish(0)
    /\ UNCHANGED <<pkg, inv, startFs, fs0>>

\* the process is killed between two of its filesystem operations
Kill ==
    /\ pc \notin {"idle", "done"}
    /\ pc' = "idle"
    /\ trail' = Append(trail, [how |-> "killed", exit |-> -1])
    /\ UNCHANGED <<fs, pkg, inv, out, writes, exitCode, startFs, fs0>>

(***************************************************************************)
(* Status Reporter (cli.js status): the frontmatter parse, as the regular  *)
(* expressions of the source match it.                                     *)
(***************************************************************************)
FM == "---"
MD == ".md"

\* f.endsWith('.md')
endsWithMd(name) == Len(name) > 0 /\ name[Len(name)] = MD

\* fs.readdirSync(priorsDir).filter(f => f.endsWith('.md'))
MdFiles(list) == SelectSeq(list, LAMBDA e : endsWithMd(e.name))

\* file.replace('.md', ''): the first occurrence only
replaceMd(name) ==
    LET at == {k \in 1..Len(name) : name[k] = MD}
    IN IF at = {} THEN name
       ELSE LET k == CHOOSE x \in at : \A y \in at : x <= y
            IN SubSeq(name, 1, k - 1) \o SubSeq(name, k + 1, Len(name))

\* content.match(/^---\n([\s\S]*?)\n---/): the places a closing "\n---"
\* can stand; the lazy group stops at the first
FmEnds(content) ==
    IF Len(content) >= 2 /\ content[1] = FM /\ content[2] = NL
    THEN {j \in 3..(Len(content) - 1) : content[j] = NL /\ content[j + 1] = FM}
    ELSE {}

fmMatch(content) == FmEnds(content) # {}

\* fmMatch[1]
fmGroup(content) ==
    LET j == CHOOSE x \in FmEnds(content) : \A y \in FmEnds(content) : x <= y
    IN SubSeq(content, 3, j - 1)

\* the end of the longest run of whitespace after position i (\s*)
WsRunEnd(fm, i) ==
    CHOOSE k \in i..Len(fm) :
        /\ \A j \in (i + 1)..k : IsWs(fm[j])
        /\ k = Len(fm) \/ ~IsWs(fm[k + 1])

\* where (.+) can start after key at i: \s* gives back as little as it must
TextStarts(fm, i) ==
    {p \in (i + 1)..(WsRunEnd(fm, i) + 1) : p <= Len(fm) /\ fm[p] # NL}

\* the end of the line that holds position p (. matches all but a newline)
LineEnd(fm, p) ==
    CHOOSE q \in p..Len(fm) :
        /\ \A j \in p..q : fm[j] # NL
        /\ q = Len(fm) \/ fm[q + 1] = NL

\* fm.match(/key\s*(.+)/): the positions of key where the pattern matches
TextMatches(fm, key) ==
    {i \in 1..Len(fm) : fm[i] = key /\ TextStarts(fm, i) # {}}

\* ...[1] of the leftmost match
TextGroup(fm, key) ==
    LET i == CHOOSE x \in TextMatches(fm, key) : \A y \in TextMatches(fm, key) : x <= y
        p == CHOOSE x \in TextStarts(fm, i) : \A y \in TextStarts(fm, i) : y <= x
    IN SubSeq(fm, p, LineEnd(fm, p))

IsDigit(c) == c \in {"0", "1", "2", "3", "4", "5", "6", "7", "8", "9"}

DigitVal(c) ==
    CASE c = "0" -> 0 [] c = "1" -> 1 [] c = "2" -> 2 [] c = "3" -> 3
      [] c = "4" -> 4 [] c = "5" -> 5 [] c = "6" -> 6 [] c = "7" -> 7
      [] c = "8" -> 8 [] c = "9" -> 9

\* parseInt of a run of digits
RECURSIVE parseInt(_)
parseInt(ds) ==
    IF ds = <<>> THEN 0
    ELSE 10 * parseInt(SubSeq(ds, 1, Len(ds) - 1)) + DigitVal(ds[Len(ds)])

\* fm.match(/entries:\s*(\d+)/): a digit must follow the whitespace run
DigitMatches(fm, key) ==
    {i \in 1..Len(fm) :
        /\ fm[i] = key
        /\ WsRunEnd(fm, i) < Len(fm)
        /\ IsDigit(fm[WsRunEnd(fm, i) + 1])}

DigitGroup(fm, key) ==
    LET i == CHOOSE x \in DigitMatches(fm, key) : \A y \in DigitMatches(fm, key) : x <= y
        p == WsRunEnd(fm, i) + 1
        q == CHOOSE x \in p..Len(fm) :
                 /\ \A j \in p..x : IsDigit(fm[j])
                 /\ x = Len(fm) \/ ~IsDigit(fm[x + 1])
    IN SubSeq(fm, p, q)

\* the four values of one file, as the loop body computes them
StatusTopic(e) ==
    IF fmMatch(e.data) /\ TextMatches(fmGroup(e.data), "topic:") # {}
    THEN trim(TextGroup(fmGroup(e.data), "topic:"))
    ELSE replaceMd(e.name)

StatusSummary(e) ==
    IF fmMatch(e.data) /\ TextMatches(fmGroup(e.data), "summary:") # {}
    THEN trim(TextGroup(fmGroup(e.data), "summary:"))
    ELSE <<>>

StatusEntries(e) ==
    IF fmMatch(e.data) /\ DigitMatches(fmGroup(e.data), "entries:") # {}
    THEN parseInt(DigitGroup(fmGroup(e.data), "entries:"))
    ELSE 0

StatusUpdated(e) ==
    LET lastUpdated ==
            IF fmMatch(e.data) /\ TextMatches(fmGroup(e.data), "last_updated:") # {}
            THEN trim(TextGroup(fmGroup(e.data), "last_updated:"))
            ELSE <<>>
    IN IF lastUpdated = <<>> THEN <<"unknown">> ELSE lastUpdated

\* the lines printed for one file
FileLine(e) ==
    [kind |-> "file", file |-> e.name, topic |-> StatusTopic(e),
     entries |-> StatusEntries(e), updated |-> StatusUpdated(e),
     summary |-> StatusSummary(e)]

\* the total overwritten instead of added to (= for +=)
AddEntriesOverwrite(totalEntries, entries) == entries

\* totalEntries += entries
AddEntries(totalEntries, entries) == totalEntries + entries

\* the for loop over files with its running total, then the Total line
RECURSIVE StatusLoop(_, _, _, _)
StatusLoop(files, i, totalEntries, lines) ==
    IF i > Len(files)
    THEN Append(lines, [kind |-> "total", files |-> Len(files),
                        entries |-> totalEntries])
    ELSE StatusLoop(files, i + 1,
                    AddEntries(totalEntries, StatusEntries(files[i])),
                    Append(lines, FileLine(files[i])))

\* everything status prints
StatusOut(f) ==
    IF ~f.priorsDir THEN <<[kind |-> "not initialized"]>>
    ELSE IF Len(MdFiles(f.priorsList)) = 0 THEN <<[kind |-> "empty"]>>
    ELSE StatusLoop(MdFiles(f.priorsList), 1, 0, <<>>)

\* a status that creates the knowledge directory it reports on
StatusFsCreatesDir(f) == MkdirPriors(f)

\* status only reads: the filesystem it leaves
StatusFs(f) == f

\* cli.js main: `claude-priors status` runs status to its end
NodeMainStatus ==
    /\ inv.prog = "node" /\ inv.cmd = "status"
    /\ pc \in {"idle", "done"}
    /\ Len(trail) < MaxRuns
    /\ startFs' = fs
    /\ fs' = StatusFs(fs)
    /\ writes' = IF fs' # fs THEN {".claude/priors/"} ELSE {}
    /\ out' = StatusOut(fs)
    /\ Finish(0)
    /\ UNCHANGED <<pkg, inv, fs0>>

(***************************************************************************)
(* The command dispatcher of cli.js: the switch on the first argument.     *)
(***************************************************************************)
\* process.argv.slice(2)[0] of an empty command line
undefined == "<undefined>"

\* the case labels that fall through to printUsage()
UsageCommands == {"help", "--help", "-h", undefined}

\* a switch without its default branch: what it does not know it treats
\* as a request for help
DispatchNoDefault(command) ==
    CASE command = "init" -> "init"
      [] command = "status" -> "status"
      [] OTHER -> "usage"

\* the branch of the switch a first argument takes
Dispatch(command) ==
    CASE command = "init" -> "init"
      [] command = "status" -> "status"
      [] command \in UsageCommands -> "usage"
      [] OTHER -> "default"

\* cli.js main: help, --help, -h or no argument prints the usage text
NodeMainUsage ==
    /\ inv.prog = "node" /\ Dispatch(inv.cmd) = "usage"
    /\ pc \in {"idle", "done"}
    /\ Len(trail) < MaxRuns
    /\ startFs' = fs
    /\ writes' = {}
    /\ out' = <<"Usage:">>
    /\ Finish(0)
    /\ UNCHANGED <<fs, pkg, inv, fs0>>

\* cli.js main: any other first argument is reported, usage is printed and
\* the process exits with status 1
NodeMainDefault ==
    /\ inv.prog = "node" /\ Dispatch(inv.cmd) = "default"
    /\ pc \in {"idle", "done"}
    /\ Len(trail) < MaxRuns
    /\ startFs' = fs
    /\ writes' = {}
    /\ out' = <<"Unknown command", "Usage:">>
    /\ Finish(1)
    /\ UNCHANGED <<fs, pkg, inv, fs0>>

(***************************************************************************)
(* Starting states: the project as init may find it.                       *)
(***************************************************************************)
Entry(n, d) == [name |-> n, data |-> d]

\* .claude/priors/: absent, present with its marker file, or present bare
PriorsStates ==
    { [dir |-> FALSE, list |-> <<>>],
      [dir |-> TRUE, list |-> <<Entry(GITKEEP, <<>>)>>],
      [dir |-> TRUE, list |-> <<>>] }

\* the project's reference document: absent, current, or an older copy
SkillStates ==
    { [dir |-> FALSE, file |-> NoFile],
      [dir |-> TRUE, file |-> File(SKILL_TEXT)],
      [dir |-> TRUE, file |-> File(SKILL_OLD)] }

\* the user-home reference document: absent or an older copy
HomeSkillStates ==
    { [dir |-> FALSE, file |-> NoFile],
      [dir |-> TRUE, file |-> File(SKILL_OLD)] }

\* CLAUDE.md: absent, text with or without trailing whitespace, text that
\* holds the marker heading, text that holds its halves on two lines
ClaudeStates ==
    { NoFile,
      File(<<"text">>),
      File(<<"text", SP, NL, NL>>),
      File(<<"text", NL, "##", "Priors", NL, "old">>),
      File(<<"##", NL, "Priors", NL>>) }

AgentsStates ==
    { NoFile,
      File(<<"agents", NL>>),
      File(<<"##", "Priors", NL>>) }

\* .gitignore: absent, without the rule, with it, or with a line the
\* pattern matches although it is another path ("xclaude/priors/")
IgnoreStates ==
    { NoFile,
      File(<<"node_modules">>),
      File(<<"node_modules", NL, ".", "claude/priors/", NL>>),
      File(<<"x", "claude/priors/", NL>>) }

\* the package as installed: assets at the primary place (a checkout), at
\* the fallback place (an npm install), at both, or one of them missing
PkgStates ==
    { [skillP |-> File(SKILL_TEXT), skillF |-> NoFile,
       bootP |-> File(SNIPPET_TEXT), bootF |-> NoFile],
      [skillP |-> NoFile, skillF |-> File(SKILL_TEXT),
       bootP |-> NoFile, bootF |-> File(SNIPPET_ALT)],
      [skillP |-> File(SKILL_TEXT), skillF |-> File(SKILL_OLD),
       bootP |-> File(SNIPPET_TEXT), bootF |-> File(SNIPPET_ALT)],
      [skillP |-> NoFile, skillF |-> NoFile,
       bootP |-> File(SNIPPET_TEXT), bootF |-> NoFile],
      [skillP |-> File(SKILL_TEXT), skillF |-> NoFile,
       bootP |-> NoFile, bootF |-> NoFile] }

\* the command lines: cli.js reads only --global, install.sh only --shared
InitCommands ==
    { [prog |-> "node", cmd |-> "init", global |-> g, shared |-> s] :
          g \in BOOLEAN, s \in BOOLEAN }
    \cup { [prog |-> "shell", cmd |-> "init", global |-> FALSE, shared |-> s] :
          s \in BOOLEAN }

MkFs(p, sl, sg, c, a, g) ==
    [priorsDir |-> p.dir, priorsList |-> p.list,
     skillDirL |-> sl.dir, skillL |-> sl.file,
     skillDirG |-> sg.dir, skillG |-> sg.file,
     claude |-> c, agents |-> a, gitignore |-> g]

InitRest ==
    /\ pc = "idle"
    /\ out = <<>>
    /\ writes = {}
    /\ exitCode = -1
    /\ startFs = fs
    /\ fs0 = fs
    /\ trail = <<>>

Init ==
    /\ \E p \in PriorsStates, sl \in SkillStates, sg \in HomeSkillStates,
          c \in ClaudeStates, a \in AgentsStates, g \in IgnoreStates :
          fs = MkFs(p, sl, sg, c, a, g)
    /\ inv \in InitCommands
    /\ pkg \in PkgStates
    /\ InitRest

Next ==
    \/ NodeMainInit
    \/ NodePriorsDir
    \/ NodeGitkeep
    \/ NodeSkillDir
    \/ NodeSkillFile
    \/ NodeInstructions
    \/ ShellMain
    \/ ShellPriorsDir
    \/ ShellTouch
    \/ ShellSkillDir
    \/ ShellSkillFile
    \/ ShellInstructions
    \/ ShellGitignore
    \/ Kill

Spec == Init /\ [][Next]_vars

(***************************************************************************)
(* The dispatcher specification: cli.js run with every kind of first       *)
(* argument, init carried through its steps as above.                      *)
(***************************************************************************)
\* command lines of cli.js: init with or without --global, status, the
\* usage verbs, no argument, and first arguments the switch does not know
\* (a flag put before the verb, a verb in capitals)
MainCommands ==
    { [prog |-> "node", cmd |-> "init", global |-> g, shared |-> FALSE] :
          g \in BOOLEAN }
    \cup { [prog |-> "node", cmd |-> c, global |-> FALSE, shared |-> FALSE] :
          c \in {"status", "help", "--help", "-h", undefined,
                 "--global", "Init", "version"} }

InitMain ==
    /\ \E p \in PriorsStates, sl \in SkillStates, sg \in HomeSkillStates,
          c \in ClaudeStates, a \in AgentsStates :
          fs = MkFs(p, sl, sg, c, a, NoFile)
    /\ inv \in MainCommands
    /\ pkg \in PkgStates
    /\ InitRest

NextMain ==
    \/ NodeMainInit
    \/ NodePriorsDir
    \/ NodeGitkeep
    \/ NodeSkillDir
    \/ NodeSkillFile
    \/ NodeInstructions
    \/ NodeMainStatus
    \/ NodeMainUsage
    \/ NodeMainDefault
    \/ Kill

SpecMain == InitMain /\ [][NextMain]_vars

(***************************************************************************)
(* The status specification: the external agent leaves knowledge files in  *)
(* .claude/priors/ (SKILL.md, "Where to Store"), and status is run on      *)
(* what it finds.                                                          *)
(***************************************************************************)
\* a text of the given lines, each ended by a newline
RECURSIVE Text(_)
Text(ls) == IF ls = <<>> THEN <<>> ELSE Head(ls) \o <<NL>> \o Text(Tail(ls))

TopicLine == <<"topic:", SP, "analytics">>
SummaryLine == <<"summary:", SP, "test", SP, "data">>
DateLine == <<"last_updated:", SP, "2024-01-01">>
EntriesLine(d) == <<"entries:", SP>> \o d

\* what the agent may have written into a knowledge file
KnowledgeTexts ==
    { \* the documented format, 3 entries and 5 entries
      Text(<<<<FM>>, TopicLine, SummaryLine, EntriesLine(<<"3">>), DateLine,
             <<FM>>, <<"body">>>>),
      Text(<<<<FM>>, <<"topic:", SP, "schema">>, SummaryLine,
             EntriesLine(<<"5">>), DateLine, <<FM>>>>),
      \* a two-digit count
      Text(<<<<FM>>, TopicLine, EntriesLine(<<"1", "2">>), DateLine, <<FM>>>>),
      \* no metadata block at all
      Text(<<<<"body">>, <<"more">>>>),
      \* a block with a topic only
      Text(<<<<FM>>, TopicLine, <<FM>>, <<"body">>>>),
      \* entries that is no integer
      Text(<<<<FM>>, TopicLine, EntriesLine(<<"many">>), DateLine, <<FM>>>>),
      \* a topic line left without a value
      Text(<<<<FM>>, <<"topic:">>, SummaryLine, EntriesLine(<<"3">>), <<FM>>>>),
      \* a summary whose text names another field
      Text(<<<<FM>>, <<"summary:", SP, "see", SP, "topic:", SP, "other">>,
             TopicLine, EntriesLine(<<"3">>), <<FM>>>>),
      \* a line inside the block that starts with three hyphens and goes on
      Text(<<<<FM>>, TopicLine, <<FM, "note">>, EntriesLine(<<"3">>), <<FM>>>>),
      \* a block that is never closed
      Text(<<<<FM>>, TopicLine, EntriesLine(<<"3">>)>>),
      \* fields in the body, after the block
      Text(<<<<FM>>, TopicLine, <<FM>>, EntriesLine(<<"5">>), DateLine>>),
      \* a block that does not open the file
      Text(<<<<"body">>, <<FM>>, TopicLine, EntriesLine(<<"3">>), <<FM>>>>) }

\* names in the directory: with the .md suffix, with ".md" twice
\* ("notes.mdx.md"), and without the suffix
KnowledgeNames ==
    { <<"data", MD>>, <<"schema", MD>>, <<"notes", MD, "x", MD>>, <<"todo", ".txt">> }

\* the agent creates a file (creating the directory first)
AgentWrite ==
    /\ pc = "idle"
    /\ trail = <<>>
    /\ Len(SelectSeq(fs.priorsList, LAMBDA e : e.name # GITKEEP)) < MaxFiles
    /\ \E n \in KnowledgeNames, d \in KnowledgeTexts :
          /\ ~HasEntry(fs.priorsList, n)
          /\ fs' = [fs EXCEPT !.priorsDir = TRUE,
                              !.priorsList = WriteEntry(@, n, d)]
    /\ startFs' = fs'
    /\ fs0' = fs'
    /\ UNCHANGED <<pkg, inv, pc, out, writes, exitCode, trail>>

InitStatus ==
    /\ \E p \in PriorsStates :
          fs = MkFs(p, CHOOSE x \in SkillStates : x.file = File(SKILL_TEXT),
                    CHOOSE x \in HomeSkillStates : ~x.dir,
                    NoFile, NoFile, NoFile)
    /\ inv = [prog |-> "node", cmd |-> "status", global |-> FALSE, shared |-> FALSE]
    /\ pkg = CHOOSE k \in PkgStates : k.skillP.ex /\ k.bootP.ex /\ ~k.skillF.ex
    /\ InitRest

NextStatus ==
    \/ AgentWrite
    \/ NodeMainStatus

SpecStatus == InitStatus /\ [][NextStatus]_vars

(***************************************************************************)
(* Properties of init (checked under Spec).                                *)
(***************************************************************************)
\* the run before the current one
PrevRun == trail[Len(trail) - 1]

\* the instructions file the current run selects, as it was when it began
Selected == InstructionFile(startFs)
SelectedBefore == ReadPath(startFs, Selected)

\* a text that contains the marker heading "## Priors"
HoldsMarker(data) ==
    \E i \in 1..(Len(data) - 1) : data[i] = "##" /\ data[i + 1] = "Priors"

\* the bootstrap fragment of the program that is run
BootstrapOf(i, pk) ==
    IF i.prog = "node" THEN readAsset(pk.bootP, pk.bootF) ELSE BOOTSTRAP_TEXT

\* the bundled reference document of the program that is run
BundledSkillOf(i, pk) ==
    IF i.prog = "node" THEN readAsset(pk.skillP, pk.skillF) ELSE SKILL_TEXT

\* C1: a run of init (cli.js init or install.sh) that follows a completed
\* run of the same command line leaves the filesystem exactly as that
\* first run left it: twice in a row equals once.
C1_InitTwiceEqualsOnce ==
    (pc = "done" /\ Len(trail) >= 2 /\ PrevRun.how = "done") => fs = startFs

\* C1 witness: a second complete run has ended after a first one that
\* created or changed files.
C1_Witness ==
    /\ pc = "done" /\ Len(trail) = 2
    /\ trail[1].how = "done" /\ trail[1].exit = 0 /\ exitCode = 0
    /\ fs.claude # fs0.claude
    /\ fs.priorsDir # fs0.priorsDir
    /\ fs = startFs

\* C2: after runs that were killed between two filesystem operations, a
\* complete run ends in the state a single uninterrupted run reaches from
\* the original state (with .gitkeep in the knowledge directory).
C2_RerunAfterKillEqualsOneRun ==
    (/\ pc = "done" /\ exitCode = 0
     /\ Len(trail) >= 2
     /\ \A k \in 1..(Len(trail) - 1) : trail[k].how = "killed")
    => fs = InitFs(fs0, pkg, inv)

\* C3: an instructions file that exists and holds the marker heading when
\* the run begins is never written by it and keeps its content.
C3_MarkedFileUntouched ==
    (SelectedBefore.ex /\ HoldsMarker(SelectedBefore.data))
    => (ReadPath(fs, Selected) = SelectedBefore /\ Selected \notin writes)

\* C3 witness: a run that wrote other files has completed over a CLAUDE.md
\* that already held the marker.
C3_Witness ==
    /\ pc = "done" /\ exitCode = 0
    /\ startFs.claude.ex /\ HoldsMarker(startFs.claude.data)
    /\ writes # {}
    /\ fs.claude = startFs.claude

\* the text the spec requires in the instructions file after init
RequiredInstrText(before, fragment) ==
    IF before.ex
    THEN trimEnd(before.data) \o <<NL>> \o <<NL>> \o trim(fragment) \o <<NL>>
    ELSE trim(fragment) \o <<NL>>

\* C4: after a completed init, a selected file that had no marker equals
\* its old content trimmed at the end, one blank line, the trimmed
\* bootstrap fragment, a newline; a created one equals the trimmed
\* fragment and a newline.
C4_AppendFormat ==
    (/\ pc = "done" /\ exitCode = 0
     /\ ~(SelectedBefore.ex /\ HoldsMarker(SelectedBefore.data)))
    => ReadPath(fs, Selected).data
           = RequiredInstrText(SelectedBefore, BootstrapOf(inv, pkg))

\* C4, cli.js alone: the same statement holds of every run of the Node CLI.
C4_NodeAppendFormat ==
    inv.prog = "node" => C4_AppendFormat

\* skillDir of the run: the user home only for cli.js with --global
SkillGlobal == inv.prog = "node" /\ inv.global

\* C5: after a completed init the reference document equals the bundled
\* one whatever it held before; it was written exactly when it was absent
\* or different, and an identical one is not reported created or updated.
C5_SkillUpdatedInPlace ==
    (pc = "done" /\ exitCode = 0)
    => LET before == SkillDest(startFs, SkillGlobal)
           bundled == BundledSkillOf(inv, pkg)
       IN /\ SkillDest(fs, SkillGlobal) = File(bundled)
          /\ (SkillPath(SkillGlobal) \in writes) <=> (before # File(bundled))
          /\ before = File(bundled) =>
                 \A k \in 1..Len(out) :
                     out[k] \notin {"Updated SKILL.md", "Created SKILL.md"}

\* C5, cli.js alone: the same statement holds of every run of the Node CLI,
\* which then reports "already up to date".
C5_NodeSkillUpdatedInPlace ==
    inv.prog = "node" =>
        /\ C5_SkillUpdatedInPlace
        /\ (pc = "done" /\ exitCode = 0
            /\ SkillDest(startFs, SkillGlobal) = File(BundledSkillOf(inv, pkg)))
           => \E k \in 1..Len(out) : out[k] = "SKILL.md already up to date"

\* C6: after `claude-priors init` without --shared the project's
\* .gitignore exists and holds the rule for .claude/priors/ (and is left
\* as it was when it held the rule already); with --shared it is neither
\* created nor changed.
C6_GitignoreDefault ==
    (inv.prog = "node" /\ pc = "done" /\ exitCode = 0)
    => IF inv.shared
       THEN fs.gitignore = startFs.gitignore
       ELSE /\ fs.gitignore.ex
            /\ includes(fs.gitignore.data, IGNORE_RULE)
            /\ includes(startFs.gitignore.data, IGNORE_RULE)
                   => fs.gitignore = startFs.gitignore

(***************************************************************************)
(* Properties of status (checked under SpecStatus).                        *)
(***************************************************************************)
\* the directory entries whose name ends in .md, by the name alone
IsMdName(name) == name # <<>> /\ name[Len(name)] = ".md"
MdEntryIndexes == {i \in 1..Len(fs.priorsList) : IsMdName(fs.priorsList[i].name)}

\* the lines status printed for files
FileLineIndexes == {k \in 1..Len(out) : out[k].kind = "file"}

\* the directory entry a printed file line is about
EntryOf(line) ==
    fs.priorsList[CHOOSE i \in 1..Len(fs.priorsList) :
                      fs.priorsList[i].name = line.file]

\* C7: status writes nothing and leaves every file and directory as it
\* was; without the knowledge directory it reports "not initialized" and
\* ends without error, with a directory that holds no .md file it reports
\* "empty".
C7_StatusReadOnly ==
    pc = "done" =>
        /\ fs = startFs
        /\ writes = {}
        /\ exitCode = 0
        /\ ~startFs.priorsDir => out = <<[kind |-> "not initialized"]>>
        /\ (startFs.priorsDir /\ MdEntryIndexes = {}) => out = <<[kind |-> "empty"]>>
        /\ MdEntryIndexes # {} => FileLineIndexes # {}

\* C7 witness: status has run on a directory that holds only files
\* without the .md suffix and has reported "empty".
C7_Witness ==
    /\ pc = "done"
    /\ Len(fs.priorsList) = 2
    /\ MdEntryIndexes = {}
    /\ out = <<[kind |-> "empty"]>>

\* the metadata block as the spec delimits it: the first line is exactly
\* "---", the block runs to the next line that is exactly "---"
SpecBlockEnds(content) ==
    IF Len(Lines(content)) >= 2 /\ Lines(content)[1] = <<"---">>
    THEN {l \in 2..Len(Lines(content)) : Lines(content)[l] = <<"---">>}
    ELSE {}

HasSpecBlock(content) == SpecBlockEnds(content) # {}

SpecBlock(content) ==
    LET l == CHOOSE x \in SpecBlockEnds(content) :
                 \A y \in SpecBlockEnds(content) : x <= y
    IN SubSeq(Lines(content), 2, l - 1)

\* the lines of a block that carry a field name, and the value of one
FieldLines(block, key) ==
    {l \in 1..Len(block) : block[l] # <<>> /\ block[l][1] = key}

FieldValue(block, l) == trim(Tail(block[l]))

IsInteger(v) == v # <<>> /\ \A k \in 1..Len(v) : IsDigit(v[k])

\* C8: for a file with a metadata block, each of topic, summary, entries
\* and last_updated that status reports is the value of a line of the
\* block that carries that field name; other lines and text outside the
\* block supply none of them.
C8_FieldsFromTheirOwnLines ==
    pc = "done" =>
        \A k \in FileLineIndexes :
            LET content == EntryOf(out[k]).data
                block == SpecBlock(content)
            IN HasSpecBlock(content) =>
                /\ FieldLines(block, "topic:") # {} =>
                       \E l \in FieldLines(block, "topic:") :
                           out[k].topic = FieldValue(block, l)
                /\ FieldLines(block, "summary:") # {} =>
                       \E l \in FieldLines(block, "summary:") :
                           out[k].summary = FieldValue(block, l)
                /\ FieldLines(block, "last_updated:") # {} =>
                       \E l \in FieldLines(block, "last_updated:") :
                           out[k].updated = FieldValue(block, l)
                /\ (\E l \in FieldLines(block, "entries:") :
                        IsInteger(FieldValue(block, l))) =>
                       \E l \in FieldLines(block, "entries:") :
                           /\ IsInteger(FieldValue(block, l))
                           /\ out[k].entries = parseInt(FieldValue(block, l))

\* C8, the documented format alone: a block whose lines are the four
\* fields, each once with a value, is reported as written.
C8_DocumentedFormat ==
    pc = "done" =>
        \A k \in FileLineIndexes :
            LET content == EntryOf(out[k]).data
            IN (HasSpecBlock(content)
                /\ SpecBlock(content) =
                       <<TopicLine, SummaryLine, EntriesLine(<<"3">>), DateLine>>)
               => /\ out[k].topic = <<"analytics">>
                  /\ out[k].entries = 3
                  /\ out[k].updated = <<"2024-01-01">>
                  /\ out[k].summary = <<"test", SP, "data">>

\* C9: a .md file with no metadata block is reported with its name minus
\* the .md extension as topic, 0 entries and "unknown"; in a block without
\* an integer entries the count is 0, without last_updated the date is
\* "unknown".
C9_Defaults ==
    pc = "done" =>
        \A k \in FileLineIndexes :
            LET name == out[k].file
                content == EntryOf(out[k]).data
                block == SpecBlock(content)
            IN /\ ~HasSpecBlock(content) =>
                      /\ out[k].topic = SubSeq(name, 1, Len(name) - 1)
                      /\ out[k].entries = 0
                      /\ out[k].updated = <<"unknown">>
               /\ HasSpecBlock(content) =>
                      /\ (\A l \in FieldLines(block, "entries:") :
                              ~IsInteger(FieldValue(block, l)))
                         => out[k].entries = 0
                      /\ FieldLines(block, "last_updated:") = {}
                         => out[k].updated = <<"unknown">>

\* C9, names with one ".md" alone: there the defaults are as claimed.
C9_DefaultsPlainNames ==
    pc = "done" =>
        \A k \in FileLineIndexes :
            LET name == out[k].file
            IN (~HasSpecBlock(EntryOf(out[k]).data)
                /\ \A j \in 1..(Len(name) - 1) : name[j] # ".md")
               => /\ out[k].topic = SubSeq(name, 1, Len(name) - 1)
                  /\ out[k].entries = 0
                  /\ out[k].updated = <<"unknown">>

\* the sum of the entry counts of the printed file lines
RECURSIVE SumPrinted(_)
SumPrinted(lines) ==
    IF lines = <<>> THEN 0
    ELSE (IF Head(lines).kind = "file" THEN Head(lines).entries ELSE 0)
         + SumPrinted(Tail(lines))

\* C10: when the directory holds .md files, the last line status prints
\* gives as file count the number of .md files, each listed once, and as
\* entry total the sum of the counts printed for them; a file without the
\* suffix is neither listed nor counted.
C10_Totals ==
    (pc = "done" /\ MdEntryIndexes # {}) =>
        LET last == out[Len(out)]
        IN /\ last.kind = "total"
           /\ last.files = Cardinality(MdEntryIndexes)
           /\ last.files = Cardinality(FileLineIndexes)
           /\ {out[k].file : k \in FileLineIndexes}
                  = {fs.priorsList[i].name : i \in MdEntryIndexes}
           /\ last.entries = SumPrinted(out)

\* C10 witness: beside .gitkeep the directory holds two files with 3 and
\* 5 entries, and status has printed "2 files, 8 entries".
C10_Witness ==
    /\ pc = "done"
    /\ HasEntry(fs.priorsList, GITKEEP)
    /\ Len(out) = 3
    /\ {out[1].entries, out[2].entries} = {3, 5}
    /\ out[3] = [kind |-> "total", files |-> 2, entries |-> 8]


(***************************************************************************)
(* Properties of the dispatcher (checked under SpecMain).                  *)
(***************************************************************************)
\* the first arguments the command surface recognizes
RecognizedCommands == {"init", "status", "help", "--help", "-h", undefined}

\* the first of an asset's two candidates that exists, if any
FirstCandidate(primary, fallback) ==
    IF primary.ex THEN primary ELSE fallback

\* init finds both of the assets it needs
AssetsAvailable ==
    /\ pkg.skillP.ex \/ pkg.skillF.ex
    /\ pkg.bootP.ex \/ pkg.bootF.ex

\* C11: a run of cli.js ends with status 1 exactly when its first argument
\* is not a recognized command (and then usage was printed) or when it is
\* init and one of the two bundled assets exists at neither its primary nor
\* its fallback location; every other run (init with its assets, status,
\* help, --help, -h, no argument) ends with status 0.  The asset init reads
\* is the primary candidate when that exists, otherwise the fallback.
C11_ExitCodes ==
    (pc = "done") =>
        /\ exitCode \in {0, 1}
        /\ exitCode = 1 <=> \/ inv.cmd \notin RecognizedCommands
                            \/ inv.cmd = "init" /\ ~AssetsAvailable
        /\ inv.cmd \notin RecognizedCommands
              => out = <<"Unknown command", "Usage:">>
        /\ (inv.cmd = "init" /\ exitCode = 0)
              => /\ SkillDest(fs, inv.global)
                        = File(FirstCandidate(pkg.skillP, pkg.skillF).data)
                 /\ Selected \in writes
                        => ReadPath(fs, Selected).data
                              = NodeInstrText(SelectedBefore,
                                    FirstCandidate(pkg.bootP, pkg.bootF).data)

\* C11 witness: init has ended with status 0 on a package that holds both
\* assets at both locations with different texts, and has written the
\* reference document and the instructions file from the primary ones.
C11_Witness ==
    /\ pc = "done" /\ inv.cmd = "init" /\ exitCode = 0
    /\ pkg.skillP.ex /\ pkg.skillF.ex /\ pkg.skillP # pkg.skillF
    /\ pkg.bootP.ex /\ pkg.bootF.ex /\ pkg.bootP # pkg.bootF
    /\ SkillPath(inv.global) \in writes
    /\ Selected \in writes

\* runs that end with status 1: an unknown first argument, and init
\* without one of its assets
C11_WitnessUnknown ==
    pc = "done" /\ inv.cmd = "--global" /\ exitCode = 1

C11_WitnessAssetMissing ==
    /\ pc = "done" /\ inv.cmd = "init" /\ exitCode = 1
    /\ AssetFound(pkg.skillP, pkg.skillF)
    /\ ~AssetFound(pkg.bootP, pkg.bootF)

\* runs of the other verbs that end with status 0
C11_WitnessUsage ==
    pc = "done" /\ inv.cmd = undefined /\ exitCode = 0 /\ out = <<"Usage:">>


(***************************************************************************)
(* The two implementations compared (checked under Spec).                  *)
(***************************************************************************)
\* the knowledge directory, the project's reference document and the two
\* instructions files of a filesystem
SharedParts(f) ==
    [priorsDir |-> f.priorsDir, priorsList |-> f.priorsList,
     skillDirL |-> f.skillDirL, skillL |-> f.skillL,
     claude |-> f.claude, agents |-> f.agents]

\* which of them are present, whatever their content
SharedPresence(f) ==
    [priorsDir |-> f.priorsDir,
     priorsNames |-> {f.priorsList[k].name : k \in 1..Len(f.priorsList)},
     skillDirL |-> f.skillDirL, skillL |-> f.skillL.ex,
     claude |-> f.claude.ex, agents |-> f.agents.ex]

\* the same command line given to the other implementation
OtherProgram(i) ==
    [i EXCEPT !.prog = IF i.prog = "node" THEN "shell" ELSE "node"]

\* a first, uninterrupted, successful run without options, of a package
\* whose bundled texts are the ones install.sh inlines
PlainFirstRun ==
    /\ pc = "done" /\ exitCode = 0 /\ Len(trail) = 1
    /\ ~inv.global /\ ~inv.shared
    /\ readAsset(pkg.skillP, pkg.skillF) = SKILL_TEXT
    /\ trim(readAsset(pkg.bootP, pkg.bootF)) = trim(BOOTSTRAP_TEXT)

\* C12: started from the same project without options, install.sh and
\* cli.js init leave the knowledge directory, the reference document and
\* the instructions files in the same state: what one implementation has
\* left after its run is what the other leaves from the same start.
C12_ImplementationsAgree ==
    PlainFirstRun
    => SharedParts(fs) = SharedParts(InitFs(fs0, pkg, OtherProgram(inv)))

\* C12, presence alone: the two implementations leave the same directories
\* and files present; they differ in content only.
C12_SameFilesPresent ==
    PlainFirstRun
    => SharedPresence(fs) = SharedPresence(InitFs(fs0, pkg, OtherProgram(inv)))

\* C12, where the reference document is absent or current and the selected
\* instructions file holds the marker: there the two implementations agree.
C12_AgreeOnSettledProject ==
    (/\ PlainFirstRun
     /\ fs0.skillL \in {NoFile, File(SKILL_TEXT)}
     /\ ReadPath(fs0, InstructionFile(fs0)).ex
     /\ HoldsMarker(ReadPath(fs0, InstructionFile(fs0)).data))
    => SharedParts(fs) = SharedParts(InitFs(fs0, pkg, OtherProgram(inv)))

\* C12, the reference document: an older copy that cli.js replaces and
\* install.sh keeps.
C12_ReferenceDocumentAgrees ==
    PlainFirstRun
    => fs.skillL = InitFs(fs0, pkg, OtherProgram(inv)).skillL


(***************************************************************************)
(* Selection of the instructions file (checked under Spec).                *)
(***************************************************************************)
InstructionNames == {"CLAUDE.md", "AGENTS.md"}

\* the file the priority order names for a project: CLAUDE.md unless only
\* AGENTS.md exists
ChosenByPriority(f) ==
    IF ~f.claude.ex /\ f.agents.ex THEN "AGENTS.md" ELSE "CLAUDE.md"

NotChosen(f) == CHOOSE n \in InstructionNames : n # ChosenByPriority(f)

\* C13: at every point of a run of init (cli.js or install.sh), whole or
\* killed, at most one instructions file has been written, and it is the
\* one the priority order names for the project as the run found it
\* (CLAUDE.md if it exists, otherwise AGENTS.md if it exists, otherwise a
\* new CLAUDE.md); the other file is as it was, neither created nor
\* modified, whichever of the two holds the marker.  A run that ends with
\* status 0 leaves the chosen file in existence.
C13_OneInstructionsFile ==
    /\ Cardinality(writes \cap InstructionNames) <= 1
    /\ writes \cap InstructionNames \subseteq {ChosenByPriority(startFs)}
    /\ ReadPath(fs, NotChosen(startFs)) = ReadPath(startFs, NotChosen(startFs))
    /\ (pc = "done" /\ exitCode = 0)
          => ReadPath(fs, ChosenByPriority(startFs)).ex
    /\ ReadPath(fs, ChosenByPriority(startFs))
          # ReadPath(startFs, ChosenByPriority(startFs))
          => ChosenByPriority(startFs) \in writes

\* C13 witness: CLAUDE.md existed without the marker and AGENTS.md with
\* it; the run has appended to CLAUDE.md and has ended, AGENTS.md is as it
\* was.
C13_Witness ==
    /\ pc = "done" /\ exitCode = 0
    /\ startFs.claude.ex /\ ~HoldsMarker(startFs.claude.data)
    /\ startFs.agents.ex /\ HoldsMarker(startFs.agents.data)
    /\ writes \cap InstructionNames = {"CLAUDE.md"}
    /\ fs.claude # startFs.claude
    /\ fs.agents = startFs.agents

\* C13 witness, the other two branches: only AGENTS.md existed and was
\* appended to; neither existed and CLAUDE.md was created.
C13_WitnessAgentsOnly ==
    /\ pc = "done" /\ exitCode = 0
    /\ ~startFs.claude.ex /\ startFs.agents.ex
    /\ writes \cap InstructionNames = {"AGENTS.md"}
    /\ ~fs.claude.ex

C13_WitnessNeither ==
    /\ pc = "done" /\ exitCode = 0
    /\ ~startFs.claude.ex /\ ~startFs.agents.ex
    /\ writes \cap InstructionNames = {"CLAUDE.md"}
    /\ fs.claude.ex /\ ~fs.agents.ex

=============================================================================
